---- MODULE Spec2Model ----
(***************************************************************************)
(* Model of simple_streamlit_app.py: catalog loading with an embedded      *)
(* fallback, the filter / sort / column-reorder pipeline, the derivation   *)
(* of API URLs and file names, and the "Guardar en servidor" workflow.     *)
(*                                                                         *)
(* Strings whose characters matter (titles, dates, series ids, URLs, file  *)
(* names) are sequences of one-character strings.                          *)
(***************************************************************************)
EXTENDS Integers, Sequences, FiniteSets, TLC

VARIABLES
    requests,    \* TRUE iff "import requests" succeeded (line 41)
    cache,       \* the memo of load_catalog kept by @_cache: NoCache or a table
    fetches,     \* number of GETs of CATALOG_URL issued so far
    descargas,   \* files under DL_DIR: file name -> content
    scripts,     \* files under SCRIPTS_DIR: script name -> content
    filtered,    \* the table shown by the last run (NoTable if the run died earlier)
    messages,    \* what the last run rendered in the page, in order
    run,         \* what the last run did: inputs, environment outcomes, derived names
    arg,         \* input of the pure function under check
    ret          \* its result

vars == <<requests, cache, fetches, descargas, scripts, filtered,
          messages, run, arg, ret>>

-----------------------------------------------------------------------------
(* Characters and strings                                                  *)

UpperChars == <<"A","B","C","D","E","F","G","H","I","J","K","L","M",
                "N","O","P","Q","R","S","T","U","V","W","X","Y","Z">>
LowerChars == <<"a","b","c","d","e","f","g","h","i","j","k","l","m",
                "n","o","p","q","r","s","t","u","v","w","x","y","z">>
DigitChars == <<"0","1","2","3","4","5","6","7","8","9">>

Range(s) == {s[i] : i \in DOMAIN s}

\* str.lower() on one ASCII character
LowerChar(c) ==
    IF \E i \in DOMAIN UpperChars : UpperChars[i] = c
    THEN LowerChars[CHOOSE i \in DOMAIN UpperChars : UpperChars[i] = c]
    ELSE c

Lower(s) == [i \in DOMAIN s |-> LowerChar(s[i])]

\* the character class [a-z0-9] of the fallback slugify
IsSlugChar(c) == c \in Range(LowerChars) \cup Range(DigitChars)

\* str.strip() with no argument: drops leading and trailing whitespace
IsSpace(c) == c = " "

RECURSIVE LStrip(_)
LStrip(s) == IF s # <<>> /\ IsSpace(Head(s)) THEN LStrip(Tail(s)) ELSE s

RECURSIVE RStrip(_)
RStrip(s) ==
    IF s # <<>> /\ IsSpace(s[Len(s)]) THEN RStrip(SubSeq(s, 1, Len(s) - 1)) ELSE s

Strip(s) == RStrip(LStrip(s))

\* re.sub(r"[^a-z0-9]+", "-", s): every maximal run of other characters -> one "-"
RECURSIVE SubRuns(_, _)
SubRuns(s, inRun) ==
    IF s = <<>> THEN <<>>
    ELSE IF IsSlugChar(Head(s)) THEN <<Head(s)>> \o SubRuns(Tail(s), FALSE)
    ELSE IF inRun THEN SubRuns(Tail(s), TRUE)
    ELSE <<"-">> \o SubRuns(Tail(s), TRUE)

RECURSIVE LStripDash(_)
LStripDash(s) == IF s # <<>> /\ Head(s) = "-" THEN LStripDash(Tail(s)) ELSE s

RECURSIVE RStripDash(_)
RStripDash(s) ==
    IF s # <<>> /\ s[Len(s)] = "-" THEN RStripDash(SubSeq(s, 1, Len(s) - 1)) ELSE s

\* slugify(txt) of lines 48-49
slugify(txt) == RStripDash(LStripDash(SubRuns(Lower(txt), FALSE)))

RECURSIVE Join(_, _)
\* sep.join(parts)
Join(parts, sep) ==
    IF parts = <<>> THEN <<>>
    ELSE IF Len(parts) = 1 THEN parts[1]
    ELSE parts[1] \o sep \o Join(Tail(parts), sep)

-----------------------------------------------------------------------------
(* build_api_url                                                           *)

API_BASE ==
    <<"h","t","t","p","s",":","/","/","a","p","i","s",".","d","a","t","o","s",
      ".","g","o","b",".","a","r","/","s","e","r","i","e","s","/","a","p","i",
      "/","s","e","r","i","e","s","?","f","o","r","m","a","t","=","c","s","v","&">>

K_ids == <<"i","d","s">>
K_start_date == <<"s","t","a","r","t","_","d","a","t","e">>
K_end_date == <<"e","n","d","_","d","a","t","e">>

\* urllib.parse.quote_plus leaves these alone
IsUnreserved(c) ==
    c \in Range(LowerChars) \cup Range(UpperChars) \cup Range(DigitChars)
          \cup {"_", ".", "-", "~"}

\* "%XX" of the reserved ASCII characters the model draws inputs from
PercentCodes ==
    [c \in {"&", "=", "+", "%", "!", "#", "?", "/", ":"} |->
        CASE c = "&" -> <<"%","2","6">>
          [] c = "=" -> <<"%","3","D">>
          [] c = "+" -> <<"%","2","B">>
          [] c = "%" -> <<"%","2","5">>
          [] c = "!" -> <<"%","2","1">>
          [] c = "#" -> <<"%","2","3">>
          [] c = "?" -> <<"%","3","F">>
          [] c = "/" -> <<"%","2","F">>
          [] c = ":" -> <<"%","3","A">>]

QuoteChar(c) ==
    IF IsUnreserved(c) THEN <<c>>
    ELSE IF c = " " THEN <<"+">>
    ELSE PercentCodes[c]

RECURSIVE quote_plus(_)
quote_plus(s) == IF s = <<>> THEN <<>> ELSE QuoteChar(Head(s)) \o quote_plus(Tail(s))

\* the missing cell of a table (a float NaN)
NaN == <<"NaN">>

\* str(v) of a cell
StrOf(v) == IF v = NaN THEN <<"n","a","n">> ELSE v

RECURSIVE urlencode(_)
\* urlencode of a dict given as the sequence of its (key, value) items
urlencode(q) ==
    IF q = <<>> THEN <<>>
    ELSE quote_plus(q[1][1]) \o <<"=">> \o quote_plus(StrOf(q[1][2]))
         \o (IF Len(q) > 1 THEN <<"&">> \o urlencode(Tail(q)) ELSE <<>>)

\* None, kept a sequence so that it compares with strings
None == <<"None">>

\* Python truthiness of "str | None"
Truthy(s) == s # None /\ s # <<>>

\* the dates tested against None only: an empty date gets its key
QueryItemsNotNone(serie_id, start, end) ==
    <<<<K_ids, serie_id>>>>
    \o (IF start # None THEN <<<<K_start_date, start>>>> ELSE <<>>)
    \o (IF end # None THEN <<<<K_end_date, end>>>> ELSE <<>>)

\* lines 102-106: the dict q, in insertion order
QueryItems(serie_id, start, end) ==
    <<<<K_ids, serie_id>>>>
    \o (IF Truthy(start) THEN <<<<K_start_date, start>>>> ELSE <<>>)
    \o (IF Truthy(end) THEN <<<<K_end_date, end>>>> ELSE <<>>)

build_api_url(serie_id, start, end) ==
    API_BASE \o urlencode(QueryItems(serie_id, start, end))

-----------------------------------------------------------------------------
(* Tables (pandas DataFrames)                                              *)
(*                                                                         *)
(* A table is [cols |-> sequence of column names, rows |-> sequence of     *)
(* rows]; a row is [idx |-> its index label, val |-> column name -> cell]. *)
(* String cells are character sequences, NaN is the missing cell, and the  *)
(* cells of consultas_90_dias are numbers (Num(n) or NumNaN) once          *)
(* load_catalog returns.                                                   *)

Cols(t) == Range(t.cols)

Table(cols, rows) == [cols |-> cols, rows |-> rows]

RECURSIVE SelectSeq2(_, _)
\* the subsequence of s of the elements in the set keep
SelectSeq2(s, keep) ==
    IF s = <<>> THEN <<>>
    ELSE (IF Head(s) \in keep THEN <<Head(s)>> ELSE <<>>) \o SelectSeq2(Tail(s), keep)

-----------------------------------------------------------------------------
(* load_catalog                                                            *)

\* the characters of a few words
W_Actividad == <<"A","c","t","i","v","i","d","a","d">>
W_Todos == <<"T","o","d","o","s">>

\* _EMBEDDED_CSV (lines 68-71) as header and lines of cells
EmbeddedHeader ==
    <<"serie_id", "serie_titulo", "dataset_tema", "dataset_descripcion",
      "serie_descripcion", "consultas_90_dias">>

EmbeddedLines ==
    << << <<"T","E","S","T","1","2","3">>,
          <<"S","e","r","i","e"," ","d","e"," ","e","j","e","m","p","l","o">>,
          W_Actividad,
          <<"D","a","t","a","s","e","t"," ","d","e"," ","p","r","u","e","b","a">>,
          <<"D","e","s","c"," ","c","o","r","t","a">>,
          <<"9","9","9">> >> >>

EMBEDDED_CSV == [header |-> EmbeddedHeader, lines |-> EmbeddedLines]

\* a body with no header line at all: pd.read_csv raises EmptyDataError
EmptyBody == [header |-> <<>>, lines |-> <<>>]

IsDigits(s) == s # <<>> /\ \A i \in DOMAIN s : s[i] \in Range(DigitChars)

DigitValue(c) == (CHOOSE i \in DOMAIN DigitChars : DigitChars[i] = c) - 1

RECURSIVE DigitsValue(_)
DigitsValue(s) ==
    IF s = <<>> THEN 0 ELSE 10 * DigitsValue(SubSeq(s, 1, Len(s) - 1)) + DigitValue(s[Len(s)])

\* a number as pandas holds it: NaN or an integer
Num(n) == [nan |-> FALSE, n |-> n]
NumNaN == [nan |-> TRUE, n |-> 0]

\* pd.to_numeric(..., errors="coerce") on one cell: text that is no number -> NaN
to_numeric(cell) ==
    IF IsDigits(cell) THEN Num(DigitsValue(cell))
    ELSE IF cell # <<>> /\ Head(cell) = "-" /\ IsDigits(Tail(cell))
         THEN Num(0 - DigitsValue(Tail(cell)))
    ELSE NumNaN

\* the fill left out: NaN stays
fillnaNothing(x) == x

\* Series.fillna(0) on one cell
fillna0(x) == IF x.nan THEN Num(0) ELSE x

\* one cell of a parsed line: the empty field is NaN
ParseCell(line, j) == IF j > Len(line) \/ line[j] = <<>> THEN NaN ELSE line[j]

\* pd.read_csv(..., on_bad_lines="skip"): lines with too many fields are dropped,
\* short lines are padded with NaN, rows are labelled 0, 1, ... in order
GoodLines(body) ==
    SelectSeq2(body.lines, {l \in Range(body.lines) : Len(l) <= Len(body.header)})

read_csv(body) ==
    LET good == GoodLines(body) IN
    Table(body.header,
          [i \in DOMAIN good |->
              [idx |-> i - 1,
               val |-> [c \in Range(body.header) |->
                          ParseCell(good[i],
                                    CHOOSE j \in DOMAIN body.header : body.header[j] = c)]]])

RaisesOnParse(body) == body.header = <<>>

\* lines 123-125 on the parsed table
Normalize(df) ==
    IF "consultas_90_dias" \notin Cols(df)
    THEN Table(Append(df.cols, "consultas_90_dias"),
               [i \in DOMAIN df.rows |->
                  [idx |-> df.rows[i].idx,
                   val |-> [c \in Cols(df) \cup {"consultas_90_dias"} |->
                              IF c = "consultas_90_dias" THEN Num(0) ELSE df.rows[i].val[c]]]])
    ELSE Table(df.cols,
               [i \in DOMAIN df.rows |->
                  [idx |-> df.rows[i].idx,
                   val |-> [c \in Cols(df) |->
                              IF c = "consultas_90_dias"
                              THEN fillna0(to_numeric(df.rows[i].val[c]))
                              ELSE df.rows[i].val[c]]]])

\* outcomes of requests.get(CATALOG_URL) followed by raise_for_status()
FetchOk(body) == [kind |-> "ok", body |-> body]
FetchNetworkError == [kind |-> "network_error", body |-> EmptyBody]
FetchBadStatus == [kind |-> "bad_status", body |-> EmptyBody]

NoTable == Table(<<>>, <<>>)

\* The body of load_catalog (lines 110-126) for one outcome of the GET:
\* the bytes parsed, whether the call raises, the table returned, the warnings.
load_catalog(req, outcome) ==
    LET fallback == ~req \/ outcome.kind # "ok"
        csv_bytes == IF fallback THEN EMBEDDED_CSV ELSE outcome.body
        warn == IF ~req THEN <<"warning: no requests, embedded CSV">>
                ELSE IF outcome.kind # "ok" THEN <<"warning: catalog download failed">>
                ELSE <<>>
    IN  IF RaisesOnParse(csv_bytes)
        THEN [raised |-> TRUE, df |-> NoTable, warnings |-> warn, get |-> req]
        ELSE [raised |-> FALSE, df |-> Normalize(read_csv(csv_bytes)),
              warnings |-> warn, get |-> req]

-----------------------------------------------------------------------------
(* Filters, sort and column order (sections 4 and 5 of the script)         *)

Todos == W_Todos

\* meta["dataset_tema"].dropna().unique(); the selectbox offers them after "Todos"
all_topics(meta) ==
    {meta.rows[i].val["dataset_tema"] : i \in DOMAIN meta.rows} \ {NaN}

TopicOptions(meta) == {Todos} \cup all_topics(meta)

\* line 144
TopicFilter(meta, sel_topic) ==
    IF sel_topic = Todos THEN meta
    ELSE Table(meta.cols,
               SelectSeq2(meta.rows,
                          {r \in Range(meta.rows) : r.val["dataset_tema"] = sel_topic}))

\* needle occurs in hay
Contains(hay, needle) ==
    \E i \in 1..(Len(hay) - Len(needle) + 1) :
        SubSeq(hay, i, i + Len(needle) - 1) = needle

\* lines 147-148: str.contains(query, case=False, na=False), for a query of
\* letters and digits (a query is a regular expression; these match themselves)
TextFilter(t, query) ==
    IF query = <<>> THEN t
    ELSE Table(t.cols,
               SelectSeq2(t.rows,
                          {r \in Range(t.rows) :
                              /\ r.val["serie_titulo"] # NaN
                              /\ Contains(Lower(r.val["serie_titulo"]), Lower(query))}))

\* the characters of the model in code point order
AsciiOrder ==
    <<" ", "!", "#", "%", "&", "+", "-", ".", "/">> \o DigitChars
    \o <<":", "=", "?">> \o UpperChars \o <<"_">> \o LowerChars \o <<"~">>

CharCode(c) == CHOOSE i \in DOMAIN AsciiOrder : AsciiOrder[i] = c

RECURSIVE StrLeq(_, _)
\* a <= b for Python strings
StrLeq(a, b) ==
    IF a = <<>> THEN TRUE
    ELSE IF b = <<>> THEN FALSE
    ELSE IF Head(a) = Head(b) THEN StrLeq(Tail(a), Tail(b))
    ELSE CharCode(Head(a)) < CharCode(Head(b))

IsNaNKey(col, v) == IF col = "consultas_90_dias" THEN v.nan ELSE v = NaN

KeyLeq(col, a, b) == IF col = "consultas_90_dias" THEN a.n <= b.n ELSE StrLeq(a, b)

PermsOf(n) == {p \in [1..n -> 1..n] : \A i, j \in 1..n : i # j => p[i] # p[j]}

\* line 156: the orders sort_values(order_col, ascending=asc, na_position="last")
\* may return; the default quicksort fixes no order among equal keys
sort_values(t, order_col, asc) ==
    LET n == Len(t.rows)
        key(i) == t.rows[i].val[order_col]
        ok(p) == \A i, j \in 1..n : i < j =>
                    /\ IsNaNKey(order_col, key(p[i])) => IsNaNKey(order_col, key(p[j]))
                    /\ (~IsNaNKey(order_col, key(p[i])) /\ ~IsNaNKey(order_col, key(p[j])))
                          => IF asc THEN KeyLeq(order_col, key(p[i]), key(p[j]))
                             ELSE KeyLeq(order_col, key(p[j]), key(p[i]))
    IN  {Table(t.cols, [i \in 1..n |-> t.rows[p[i]]]) : p \in {q \in PermsOf(n) : ok(q)}}

preferred_order ==
    <<"consultas_90_dias", "dataset_descripcion", "dataset_fuente", "dataset_tema",
      "serie_indice_final", "serie_indice_inicio", "serie_unidades", "serie_valor_ultimo">>

\* remaining_cols taken to be every column: the preferred ones come twice
ReorderColsKeepAll(cols) == SelectSeq2(preferred_order, Range(cols)) \o cols

\* lines 171-173 on the column list
ReorderCols(cols) ==
    LET existing_preferred == SelectSeq2(preferred_order, Range(cols))
        remaining_cols == SelectSeq2(cols, Range(cols) \ Range(existing_preferred))
    IN  existing_preferred \o remaining_cols

\* filtered[existing_preferred + remaining_cols]: rows keep every selected cell
Reorder(t) ==
    LET cols == ReorderCols(t.cols) IN
    Table(cols,
          [i \in DOMAIN t.rows |->
              [idx |-> t.rows[i].idx, val |-> [c \in Range(cols) |-> t.rows[i].val[c]]]])

-----------------------------------------------------------------------------
(* Download section (section 7 of the script)                              *)

\* "— Elige una —", the first entry of fila_labels
NoFila == 0 - 1

fila_labels(t) == {NoFila} \cup {t.rows[i].idx : i \in DOMAIN t.rows}

\* filtered.loc[idx]
RowAt(t, idx) == CHOOSE r \in Range(t.rows) : r.idx = idx

\* start_date.strip() or None
DateOrNone(s) == IF Strip(s) = <<>> THEN None ELSE Strip(s)

\* slugify raises on a title that is no string (a missing cell is a float)
SlugRaises(titulo) == titulo = NaN

Ext_csv == <<".","c","s","v">>
Ext_py == <<".","p","y">>

\* the end date left out of the name
FileNameStartOnly(base_slug, start, end) ==
    IF Truthy(start) \/ Truthy(end)
    THEN base_slug \o <<"_">> \o (IF Truthy(start) THEN start ELSE <<>>) \o Ext_csv
    ELSE base_slug \o Ext_csv

\* lines 203-212
FileName(base_slug, start, end) ==
    IF Truthy(start) \/ Truthy(end)
    THEN LET parts == (IF Truthy(start) THEN <<start>> ELSE <<>>)
                      \o (IF Truthy(end) THEN <<end>> ELSE <<>>)
         IN  base_slug \o <<"_">> \o Join(parts, <<"_">>) \o Ext_csv
    ELSE base_slug \o Ext_csv

\* line 222
ScriptName(base_slug) == base_slug \o Ext_py

\* what the series server answers to a GET of url: the series its query names
ResponseOf(url) == SubSeq(url, Len(API_BASE) + 1, Len(url))

\* what is left of a file whose write failed after open() truncated it
Partial == <<"partial">>

Put(fs, name, content) ==
    [n \in DOMAIN fs \cup {name} |-> IF n = name THEN content ELSE fs[n]]

\* os.path.exists(script_path), line 224
\* the existence check of line 224 left out
ScriptNeverExists(fs, script_name) == FALSE

\* line 224
ScriptExists(fs, script_name) == script_name \in DOMAIN fs

\* the template of lines 226-262 filled in: the title and the date are its only blanks
ScriptText(titulo, day) == [titulo |-> titulo, creado |-> day, complete |-> TRUE]

PartialScript(titulo, day) == [titulo |-> titulo, creado |-> day, complete |-> FALSE]

\* The ways through the try block of lines 215-275, named by the step that
\* raises (or by the exit code when none does).
SavePaths ==
    {"download_error", "csv_open_error", "csv_write_error", "script_open_error",
     "script_write_error", "spawn_error", "exit_nonzero", "exit_zero"}

\* a write that failed half way counted as a written file
CsvWrittenOrPartial(path) ==
    path \in {"csv_write_error", "script_open_error", "script_write_error", "spawn_error",
              "exit_nonzero", "exit_zero"}

\* the paths on which lines 216-220 complete
CsvWritten(path) ==
    path \in {"script_open_error", "script_write_error", "spawn_error",
              "exit_nonzero", "exit_zero"}

\* subprocess.run with check=True: a non-zero exit code raises too
RaisesOnExitCode(path) == path # "exit_zero"

\* the paths that end in the handler of lines 274-275
Raises(path) == path \notin {"exit_nonzero", "exit_zero"}

M_saved == "success: Guardado en servidor"
M_created == "success: Script creado"
M_ran == "success: Script ejecutado correctamente"
M_stderr == "error: Error al ejecutar script + stderr"
M_save_error == "error: Error al guardar o ejecutar en servidor"
M_local_error == "error: Error en descarga local"
M_button == "download_button: Descargar en local"
M_select == "info: Selecciona una fila"
M_exception == "exception: uncaught, the run stops"

\* a path the environment can take given what the process has
PathPossible(path, req, exists) ==
    /\ ~req => path = "download_error"
    /\ exists => path \notin {"script_open_error", "script_write_error"}

\* lines 214-275 with the button pressed
SaveAction(dl, sc, titulo, api_url, fname, script_name, path, day) ==
    LET exists == ScriptExists(sc, script_name)
        csv == IF CsvWritten(path) THEN Put(dl, fname, ResponseOf(api_url))
               ELSE IF path = "csv_write_error" THEN Put(dl, fname, Partial)
               ELSE dl
        created == CsvWritten(path) /\ ~exists /\ path # "script_open_error"
        py == IF ~created THEN sc
              ELSE IF path = "script_write_error"
                   THEN Put(sc, script_name, PartialScript(titulo, day))
              ELSE Put(sc, script_name, ScriptText(titulo, day))
        executed == path \in {"exit_nonzero", "exit_zero"}
        msgs == (IF CsvWritten(path) THEN <<M_saved>> ELSE <<>>)
                \o (IF created /\ path # "script_write_error" THEN <<M_created>> ELSE <<>>)
                \o (IF path = "exit_zero" THEN <<M_ran>> ELSE <<>>)
                \o (IF path = "exit_nonzero" THEN <<M_stderr>> ELSE <<>>)
                \o (IF Raises(path) THEN <<M_save_error>> ELSE <<>>)
    IN  [descargas |-> csv, scripts |-> py, msgs |-> msgs,
         created |-> created, executed |-> executed]

\* lines 277-285
LocalDownload(local) == IF local = "ok" THEN <<M_button>> ELSE <<M_local_error>>

-----------------------------------------------------------------------------
(* Bounds and inputs of the session                                        *)

MaxFetches == 2
MaxDay == 1

\* date.today() when a script is generated
Days == 1..MaxDay

\* a catalog as the server sends it: two titles with one slug, a missing title,
\* a cell that is no number, a line with too many fields
RemoteHeader == <<"serie_id", "serie_titulo", "dataset_tema", "consultas_90_dias">>

RemoteLines ==
    << << <<"A">>, <<"a">>, W_Actividad, <<"5">> >>,
       << <<"B">>, <<"A", "!">>, W_Actividad, <<"x">> >>,
       << <<"Z">>, <<"z">>, W_Actividad, <<"1">>, <<"extra">> >>,
       << <<"C">>, <<>>, <<>>, <<"7">> >> >>

RemoteBody == [header |-> RemoteHeader, lines |-> RemoteLines]

FetchOutcomes == {FetchOk(RemoteBody), FetchOk(EmptyBody), FetchNetworkError, FetchBadStatus}

\* the widget settings the session tries: the defaults of the sidebar (line 143:
\* "Todos", line 146: empty, line 153: consultas_90_dias, line 155: descending),
\* a topic with an ascending sort by title, and a title search
Setting(sel_topic, query, order_col, asc) ==
    [sel_topic |-> sel_topic, query |-> query, order_col |-> order_col, asc |-> asc]

ViewSettings ==
    {Setting(Todos, <<>>, "consultas_90_dias", FALSE),
     Setting(W_Actividad, <<>>, "serie_titulo", TRUE),
     Setting(Todos, <<"a">>, "consultas_90_dias", TRUE)}

\* what the user types in "Fecha inicio" and "Fecha fin"
DateInputs == {<<>>, <<" ">>}

NoCache == [full |-> FALSE, df |-> NoTable]
Cached(df) == [full |-> TRUE, df |-> df]

NoRun ==
    [kind |-> "none", titulo |-> <<>>, sel_id |-> <<>>, start |-> None, end |-> None,
     fname |-> <<>>, script_name |-> <<>>, path |-> "none",
     created |-> FALSE, executed |-> FALSE]

\* meta = load_catalog() under @_cache (line 139): the memo answers when it is
\* filled; otherwise the body runs, and only a call that returns fills the memo
CachedLoad(memo, req, fetch) ==
    IF memo.full
    THEN [raised |-> FALSE, df |-> memo.df, warnings |-> <<>>, get |-> FALSE, ran |-> FALSE]
    ELSE [ran |-> TRUE] @@ load_catalog(req, fetch)

CacheAfter(memo, L) == IF L.ran /\ ~L.raised THEN Cached(L.df) ELSE memo

FetchChoices(memo) == IF memo.full THEN {FetchNetworkError} ELSE FetchOutcomes

\* sections 4 and 5: the tables the run may show for one setting of the widgets
Views(meta, w) ==
    {Reorder(t) : t \in sort_values(TextFilter(TopicFilter(meta, w.sel_topic), w.query),
                                     w.order_col, w.asc)}

\* the settings the widgets offer on this catalog
Offered(meta) ==
    {w \in ViewSettings : w.sel_topic \in TopicOptions(meta) /\ w.order_col \in Cols(meta)}

\* the result slot of the function under check
NotCalled == [done |-> FALSE]
Returned(v) == [done |-> TRUE, val |-> v]

-----------------------------------------------------------------------------
(* One run of the script per user interaction                              *)

Init ==
    /\ requests \in BOOLEAN
    /\ cache = NoCache
    /\ fetches = 0
    /\ descargas = <<>>
    /\ scripts = <<>>
    /\ filtered = NoTable
    /\ messages = <<>>
    /\ run = NoRun
    /\ arg = <<>>
    /\ ret = NotCalled

\* line 139, common to every run
Load(L) ==
    /\ L.get => fetches < MaxFetches
    /\ cache' = CacheAfter(cache, L)
    /\ fetches' = IF L.get THEN fetches + 1 ELSE fetches

\* pd.read_csv raises inside load_catalog: the run stops at line 139
RunLoadFails ==
    \E fetch \in FetchChoices(cache) :
      \E L \in {CachedLoad(cache, requests, fetch)} :
        /\ L.raised
        /\ Load(L)
        /\ filtered' = NoTable
        /\ messages' = L.warnings \o <<M_exception>>
        /\ run' = [NoRun EXCEPT !.kind = "load_crash"]
        /\ UNCHANGED <<requests, descargas, scripts, arg, ret>>

\* no row chosen: the table is shown and the sidebar asks for a row (line 287)
RunBrowse ==
    \E fetch \in FetchChoices(cache) :
      \E L \in {CachedLoad(cache, requests, fetch)} :
        /\ ~L.raised
        /\ Load(L)
        /\ \E w \in Offered(L.df) : \E view \in Views(L.df, w) : filtered' = view
        /\ messages' = L.warnings \o <<M_select>>
        /\ run' = [NoRun EXCEPT !.kind = "browse"]
        /\ UNCHANGED <<requests, descargas, scripts, arg, ret>>

\* lines 196-212: what the download section derives from the chosen row
Derive(serie_row, start_date, end_date) ==
    [titulo |-> serie_row.val["serie_titulo"],
     sel_id |-> serie_row.val["serie_id"],
     start |-> DateOrNone(start_date),
     end |-> DateOrNone(end_date)]

Names(d) ==
    [api_url |-> build_api_url(d.sel_id, d.start, d.end),
     fname |-> FileName(slugify(d.titulo), d.start, d.end),
     script_name |-> ScriptName(slugify(d.titulo))]

RunOf(kind, d) ==
    [NoRun EXCEPT !.kind = kind, !.titulo = d.titulo, !.sel_id = d.sel_id,
                  !.start = d.start, !.end = d.end]

\* a row is chosen, and its title is missing: line 202 raises outside every
\* try, so the run stops before the button is looked at
RunSlugFails ==
    \E fetch \in FetchChoices(cache) :
      \E L \in {CachedLoad(cache, requests, fetch)} :
        /\ ~L.raised
        /\ Load(L)
        /\ \E w \in Offered(L.df) : \E view \in Views(L.df, w) :
             \E sel_fila \in fila_labels(view) \ {NoFila},
                start_date \in DateInputs, end_date \in DateInputs :
               \E d \in {Derive(RowAt(view, sel_fila), start_date, end_date)} :
                 /\ SlugRaises(d.titulo)
                 /\ filtered' = view
                 /\ messages' = L.warnings \o <<M_exception>>
                 /\ run' = RunOf("slug_crash", d)
        /\ UNCHANGED <<requests, descargas, scripts, arg, ret>>

\* a row is chosen and the save button is not pressed: lines 277-285 only
RunSelected ==
    \E fetch \in FetchChoices(cache) :
      \E L \in {CachedLoad(cache, requests, fetch)} :
        /\ ~L.raised
        /\ Load(L)
        /\ \E w \in Offered(L.df) : \E view \in Views(L.df, w) :
             \E sel_fila \in fila_labels(view) \ {NoFila},
                start_date \in DateInputs, end_date \in DateInputs :
               \E d \in {Derive(RowAt(view, sel_fila), start_date, end_date)} :
                 /\ ~SlugRaises(d.titulo)
                 /\ \E n \in {Names(d)}, local \in {"ok", "error"} :
                      /\ ~requests => local = "error"
                      /\ filtered' = view
                      /\ messages' = L.warnings \o LocalDownload(local)
                      /\ run' = [RunOf("selected", d) EXCEPT
                                    !.fname = n.fname, !.script_name = n.script_name]
        /\ UNCHANGED <<requests, descargas, scripts, arg, ret>>

\* a row is chosen and "Guardar en servidor" is pressed: lines 214-285
RunSave ==
    \E fetch \in FetchChoices(cache) :
      \E L \in {CachedLoad(cache, requests, fetch)} :
        /\ ~L.raised
        /\ Load(L)
        /\ \E w \in Offered(L.df) : \E view \in Views(L.df, w) :
             \E sel_fila \in fila_labels(view) \ {NoFila},
                start_date \in DateInputs, end_date \in DateInputs :
               \E d \in {Derive(RowAt(view, sel_fila), start_date, end_date)} :
                 /\ ~SlugRaises(d.titulo)
                 /\ \E n \in {Names(d)}, local \in {"ok", "error"},
                       path \in SavePaths, day \in Days :
                      /\ ~requests => local = "error"
                      /\ PathPossible(path, requests, ScriptExists(scripts, n.script_name))
                      /\ \E S \in {SaveAction(descargas, scripts, d.titulo, n.api_url,
                                               n.fname, n.script_name, path, day)} :
                           /\ S.created \/ day = 1
                           /\ filtered' = view
                           /\ descargas' = S.descargas
                           /\ scripts' = S.scripts
                           /\ messages' = L.warnings \o S.msgs \o LocalDownload(local)
                           /\ run' = [RunOf("save", d) EXCEPT
                                         !.fname = n.fname, !.script_name = n.script_name,
                                         !.path = path, !.created = S.created,
                                         !.executed = S.executed]
        /\ UNCHANGED <<requests, arg, ret>>

Next == RunLoadFails \/ RunBrowse \/ RunSlugFails \/ RunSelected \/ RunSave

Spec == Init /\ [][Next]_vars

-----------------------------------------------------------------------------
(* The save workflow: claims C1, C2, C3 and C6, checked under Spec         *)

Shown(m) == m \in Range(messages)

\* C1. Companion-script generation is idempotent: a script file that exists is
\* never rewritten or removed by a later run; a script file appears only in a
\* save that wrote its CSV and found no script of that slug, under the name
\* <slug>.py; a save that finds the script adds no file; and no two script
\* files belong to one slug. The CSV may be overwritten meanwhile.
C1_ScriptWrittenOnce ==
    [][ /\ \A n \in DOMAIN scripts : n \in DOMAIN scripts' /\ scripts'[n] = scripts[n]
        /\ \A n \in DOMAIN scripts' \ DOMAIN scripts :
              /\ run'.kind = "save"
              /\ Shown(M_saved)'
              /\ n = slugify(run'.titulo) \o Ext_py
        /\ Cardinality(DOMAIN scripts') <= Cardinality(DOMAIN scripts) + 1
        /\ \A n1, n2 \in DOMAIN scripts' :
              slugify(scripts'[n1].titulo) = slugify(scripts'[n2].titulo) => n1 = n2
      ]_vars

\* C1 witness: a save of a series whose title differs from the one the script
\* was generated for, with the same slug, wrote the CSV and left the script.
C1_Witness ==
    /\ run.kind = "save"
    /\ Shown(M_saved)
    /\ ~run.created
    /\ run.script_name \in DOMAIN scripts
    /\ scripts[run.script_name].titulo # run.titulo
    /\ scripts[run.script_name].complete

Steps123Failures == {"download_error", "csv_open_error", "csv_write_error"}

\* C2. A failure in the slug derivation, the download or the CSV write aborts
\* the save: no script is created or executed, no success message is shown, the
\* error is shown, and the session can run again.
C2_EarlyFailureAborts ==
    /\ [][ /\ (run'.kind = "save" /\ run'.path \in Steps123Failures) =>
                 /\ scripts' = scripts
                 /\ ~run'.created /\ ~run'.executed
                 /\ Shown(M_save_error)'
                 /\ ~Shown(M_saved)' /\ ~Shown(M_created)' /\ ~Shown(M_ran)'
           /\ run'.kind = "slug_crash" =>
                 /\ scripts' = scripts /\ descargas' = descargas
                 /\ Shown(M_exception)'
                 /\ ~Shown(M_saved)' /\ ~Shown(M_created)' /\ ~Shown(M_ran)'
          ]_vars
    /\ [](((run.kind = "save" /\ run.path \in Steps123Failures) \/ run.kind = "slug_crash")
            => ENABLED RunBrowse)

\* C2 witness: the CSV write failed in a save that found no script.
C2_Witness ==
    /\ run.kind = "save"
    /\ run.path = "csv_write_error"
    /\ run.script_name \notin DOMAIN scripts
    /\ descargas[run.fname] = Partial

ScriptStagePaths ==
    {"script_open_error", "script_write_error", "spawn_error", "exit_nonzero", "exit_zero"}

\* C3. Once the CSV is written, whatever happens to the script leaves the CSV
\* holding the downloaded bytes, the other files as they were and the success
\* message shown; a non-zero exit code is shown with the script's stderr and is
\* not raised (no failure message, the run goes on to the download button);
\* a script write or spawn error is shown as an error.
C3_ScriptOutcomeKeepsSave ==
    [][ (run'.kind = "save" /\ run'.path \in ScriptStagePaths) =>
          /\ run'.fname \in DOMAIN descargas'
          /\ descargas'[run'.fname] =
                ResponseOf(build_api_url(run'.sel_id, run'.start, run'.end))
          /\ \A f \in DOMAIN descargas :
                f # run'.fname => f \in DOMAIN descargas' /\ descargas'[f] = descargas[f]
          /\ Shown(M_saved)'
          /\ run'.path = "exit_nonzero" =>
                /\ Shown(M_stderr)'
                /\ ~Shown(M_save_error)'
                /\ Shown(M_button)' \/ Shown(M_local_error)'
          /\ run'.path \in {"script_open_error", "script_write_error", "spawn_error"} =>
                Shown(M_save_error)'
      ]_vars

\* C3 witness: the script exited with a non-zero code after the CSV was saved.
C3_Witness ==
    /\ run.kind = "save"
    /\ run.path = "exit_nonzero"
    /\ run.executed
    /\ run.fname \in DOMAIN descargas
    /\ Shown(M_saved) /\ Shown(M_stderr)

\* C6. The catalog is loaded once per process: CATALOG_URL is fetched at most
\* once, and once load_catalog has returned a table every later call returns
\* that table without fetching, whatever the run filters, sorts or saves.
C6_LoadedOnce ==
    [][ /\ fetches' <= 1
        /\ cache.full => cache' = cache /\ fetches' = fetches
      ]_vars

-----------------------------------------------------------------------------
(* Pure functions, each applied once to an input drawn by Init             *)

\* a fresh process in which only arg and ret matter
Fresh(inputs) ==
    /\ requests = TRUE
    /\ cache = NoCache
    /\ fetches = 0
    /\ descargas = <<>>
    /\ scripts = <<>>
    /\ filtered = NoTable
    /\ messages = <<>>
    /\ run = NoRun
    /\ arg \in inputs
    /\ ret = NotCalled

Session == <<requests, cache, fetches, descargas, scripts, filtered, messages, run>>

StringsUpTo(chars, n) == UNION {[1..k -> chars] : k \in 0..n}

(* build_api_url: claim C9, checked under SpecUrl *)

MaxIdLen == 2
MaxDateLen == 1

UrlChars == {"A", "&", "=", " ", "%"}
UrlDateChars == {"1", "&"}

UrlInputs ==
    [serie_id : StringsUpTo(UrlChars, MaxIdLen) \cup {<<"A", "B", "C">>, NaN},
     start : {None} \cup StringsUpTo(UrlDateChars, MaxDateLen),
     end : {None} \cup StringsUpTo(UrlDateChars, MaxDateLen)]

CallBuildApiUrl ==
    /\ ~ret.done
    /\ ret' = Returned(build_api_url(arg.serie_id, arg.start, arg.end))
    /\ UNCHANGED <<Session, arg>>

SpecUrl == Fresh(UrlInputs) /\ [][CallBuildApiUrl]_vars

IsPrefix(p, s) == Len(p) <= Len(s) /\ SubSeq(s, 1, Len(p)) = p
IsSuffix(p, s) == Len(p) <= Len(s) /\ SubSeq(s, Len(s) - Len(p) + 1, Len(s)) = p

IndexOf(s, c) == CHOOSE i \in 1..Len(s) : s[i] = c /\ \A j \in 1..(i - 1) : s[j] # c

RECURSIVE SplitOn(_, _)
\* s.split(c)
SplitOn(s, c) ==
    IF c \notin Range(s) THEN <<s>>
    ELSE <<SubSeq(s, 1, IndexOf(s, c) - 1)>>
         \o SplitOn(SubSeq(s, IndexOf(s, c) + 1, Len(s)), c)

RECURSIVE Unquote(_)
\* what a server reads back from a quoted key or value
Unquote(s) ==
    IF s = <<>> THEN <<>>
    ELSE IF Head(s) = "+" THEN <<" ">> \o Unquote(Tail(s))
    ELSE IF Head(s) = "%" /\ Len(s) >= 3
              /\ \E c \in DOMAIN PercentCodes : PercentCodes[c] = SubSeq(s, 1, 3)
         THEN <<CHOOSE c \in DOMAIN PercentCodes : PercentCodes[c] = SubSeq(s, 1, 3)>>
              \o Unquote(SubSeq(s, 4, Len(s)))
    ELSE <<Head(s)>> \o Unquote(Tail(s))

\* the (key, value) pairs a server reads from the query part of a URL
ParseQuery(url) ==
    LET query == SubSeq(url, IndexOf(url, "?") + 1, Len(url))
        items == SplitOn(query, "&")
    IN  [i \in DOMAIN items |->
            IF "=" \in Range(items[i])
            THEN <<Unquote(SubSeq(items[i], 1, IndexOf(items[i], "=") - 1)),
                   Unquote(SubSeq(items[i], IndexOf(items[i], "=") + 1, Len(items[i])))>>
            ELSE <<Unquote(items[i]), <<>>>>]

IsAlnum(s) ==
    \A i \in DOMAIN s :
        s[i] \in Range(LowerChars) \cup Range(UpperChars) \cup Range(DigitChars)

NonEmpty(d) == d # None /\ d # <<>>

\* C9. build_api_url always returns API_BASE followed by a query in which a
\* server reads ids = serie_id always, start_date = start exactly when start is
\* non-empty and end_date = end exactly when end is non-empty, and no other
\* key; with no dates the URL of an alphanumeric id ends with ids=<serie_id>.
C9_UrlKeys ==
    ret.done =>
        /\ IsPrefix(API_BASE, ret.val)
        /\ ParseQuery(ret.val) =
              << <<<<"f","o","r","m","a","t">>, <<"c","s","v">>>>,
                 <<K_ids, IF arg.serie_id = NaN THEN <<"n","a","n">> ELSE arg.serie_id>> >>
              \o (IF NonEmpty(arg.start) THEN << <<K_start_date, arg.start>> >> ELSE <<>>)
              \o (IF NonEmpty(arg.end) THEN << <<K_end_date, arg.end>> >> ELSE <<>>)
        /\ (~NonEmpty(arg.start) /\ ~NonEmpty(arg.end) /\ IsAlnum(arg.serie_id)
              /\ arg.serie_id # NaN)
             => IsSuffix(K_ids \o <<"=">> \o arg.serie_id, ret.val)

\* C9 witness: an id with a reserved character, a start date, an empty end date.
C9_Witness ==
    /\ ret.done
    /\ arg.serie_id = <<"A", "&">>
    /\ arg.start = <<"1">>
    /\ arg.end = <<>>

(* load_catalog: claims C4 and C5, checked under SpecLoad *)

MaxRows == 2

\* what a consultas_90_dias field may hold: nothing, numbers, text
CellTexts == {<<>>, <<"7">>, <<"0">>, <<"-", "3">>, <<"x">>}

HeaderNoCount == <<"serie_id", "serie_titulo", "dataset_tema">>

LineNoCount(i) == << <<DigitChars[i + 1]>>, <<"a">>, W_Actividad >>

BodiesWithCount ==
    {[header |-> RemoteHeader,
      lines |-> [i \in DOMAIN cells |-> Append(LineNoCount(i), cells[i])]] :
        cells \in StringsUpTo(CellTexts, MaxRows)}

BodiesNoCount ==
    {[header |-> HeaderNoCount, lines |-> [i \in 1..k |-> LineNoCount(i)]] : k \in 0..MaxRows}

LoadBodies == BodiesWithCount \cup BodiesNoCount \cup {RemoteBody, EmptyBody}

LoadInputs ==
    [req : BOOLEAN,
     outcome : {FetchOk(b) : b \in LoadBodies} \cup {FetchNetworkError, FetchBadStatus}]

CallLoadCatalog ==
    /\ ~ret.done
    /\ ret' = Returned(load_catalog(arg.req, arg.outcome))
    /\ UNCHANGED <<Session, arg>>

SpecLoad == Fresh(LoadInputs) /\ [][CallLoadCatalog]_vars

\* the bytes load_catalog parsed for this input
ParsedBody == IF arg.req /\ arg.outcome.kind = "ok" THEN arg.outcome.body ELSE EMBEDDED_CSV

\* the field of consultas_90_dias in the i-th line that was not skipped
CountText(i) ==
    LET line == GoodLines(ParsedBody)[i]
        j == CHOOSE k \in DOMAIN ParsedBody.header : ParsedBody.header[k] = "consultas_90_dias"
    IN  IF j > Len(line) THEN <<>> ELSE line[j]

IsNumberText(t) == IsDigits(t) \/ (t # <<>> /\ Head(t) = "-" /\ IsDigits(Tail(t)))

Count(i) == ret.val.df.rows[i].val["consultas_90_dias"]

HasCountColumn == "consultas_90_dias" \in Range(ParsedBody.header)

\* C4 as stated: every value of consultas_90_dias in the returned table is a
\* number, not null and not negative; an absent column is 0 in every row and a
\* value that is no number becomes 0.
C4_CountsNonNegative ==
    (ret.done /\ ~ret.val.raised) =>
        /\ "consultas_90_dias" \in Cols(ret.val.df)
        /\ \A i \in DOMAIN ret.val.df.rows :
              /\ ~Count(i).nan
              /\ Count(i).n >= 0
              /\ ~HasCountColumn => Count(i).n = 0
              /\ (HasCountColumn /\ ~IsNumberText(CountText(i))) => Count(i).n = 0

\* C4 amended: every value of consultas_90_dias in the returned table is a
\* number and not null; an absent column is 0 in every row, a value that is no
\* number becomes 0, and a value that is a number is kept with its sign, so a
\* negative count in the source stays negative.
C4_CountsAreNumbers ==
    (ret.done /\ ~ret.val.raised) =>
        /\ "consultas_90_dias" \in Cols(ret.val.df)
        /\ Len(ret.val.df.rows) = Len(GoodLines(ParsedBody))
        /\ \A i \in DOMAIN ret.val.df.rows :
              /\ ~Count(i).nan
              /\ ~HasCountColumn => Count(i).n = 0
              /\ (HasCountColumn /\ ~IsNumberText(CountText(i))) => Count(i).n = 0
              /\ (HasCountColumn /\ IsDigits(CountText(i))) =>
                    Count(i).n = DigitsValue(CountText(i))
              /\ (HasCountColumn /\ IsNumberText(CountText(i)) /\ ~IsDigits(CountText(i))) =>
                    Count(i).n = 0 - DigitsValue(Tail(CountText(i)))

\* C4 witness: a fetched catalog with a negative count and a count that is text.
C4_Witness ==
    /\ ret.done /\ ~ret.val.raised
    /\ arg.req /\ arg.outcome.kind = "ok"
    /\ HasCountColumn
    /\ Len(ret.val.df.rows) = 2
    /\ CountText(1) = <<"-", "3">> /\ Count(1).n = 0 - 3
    /\ CountText(2) = <<"x">> /\ Count(2).n = 0

\* C5. load_catalog never raises, whatever the GET does; without the requests
\* client, on a network error and on an error status it warns and returns the
\* table of the embedded CSV, which has a row and the four catalog columns.
C5_LoadNeverRaises ==
    ret.done =>
        /\ ~ret.val.raised
        /\ (~arg.req \/ arg.outcome.kind # "ok") =>
              /\ ret.val.warnings # <<>>
              /\ Len(ret.val.df.rows) >= 1
              /\ {"serie_id", "serie_titulo", "dataset_tema", "consultas_90_dias"}
                    \subseteq Cols(ret.val.df)
              /\ ret.val.df.rows[1].val["serie_id"] = EmbeddedLines[1][1]

(* Column order: claim C7, checked under SpecReorder *)

MaxCols == 4

\* two preferred columns, the third and the first of preferred_order, among others
ColUniverse == {"B", "D", "consultas_90_dias", "dataset_fuente", "serie_unidades"}

\* the column lists of a DataFrame read by read_csv: names are distinct
ColumnLists ==
    {cols \in StringsUpTo(ColUniverse, MaxCols) :
        \A i, j \in DOMAIN cols : i # j => cols[i] # cols[j]}

\* a table of two rows whose cells tell their column and row
TableOf(cols) ==
    Table(cols, [i \in 1..2 |->
                    [idx |-> i - 1, val |-> [c \in Range(cols) |-> <<c, DigitChars[i]>>]]])

ReorderInputs == {TableOf(cols) : cols \in ColumnLists}

CallReorder ==
    /\ ~ret.done
    /\ ret' = Returned(Reorder(arg))
    /\ UNCHANGED <<Session, arg>>

SpecReorder == Fresh(ReorderInputs) /\ [][CallReorder]_vars

Pos(seq, x) == CHOOSE i \in DOMAIN seq : seq[i] = x

IsPreferred(c) == c \in Range(preferred_order)

\* C7. The reordered column list is a permutation of the input (same length,
\* same columns, none twice); the preferred columns present come first, in the
\* order of the preferred list; the others follow in their input order; every
\* row keeps its label and its cells. With preferred columns A = consultas_90_dias
\* and C = dataset_fuente, input [B, C, A, D] gives [A, C, B, D].
C7_ReorderIsPermutation ==
    ret.done =>
        LET inp == arg.cols
            out == ret.val.cols
        IN  /\ Len(out) = Len(inp)
            /\ Range(out) = Range(inp)
            /\ \A i, j \in DOMAIN out : i # j => out[i] # out[j]
            /\ \A i, j \in DOMAIN out : i < j =>
                  /\ IsPreferred(out[j]) => IsPreferred(out[i])
                  /\ (IsPreferred(out[i]) /\ IsPreferred(out[j])) =>
                        Pos(preferred_order, out[i]) < Pos(preferred_order, out[j])
                  /\ (~IsPreferred(out[i]) /\ ~IsPreferred(out[j])) =>
                        Pos(inp, out[i]) < Pos(inp, out[j])
            /\ Len(ret.val.rows) = Len(arg.rows)
            /\ \A r \in DOMAIN arg.rows :
                  /\ ret.val.rows[r].idx = arg.rows[r].idx
                  /\ DOMAIN ret.val.rows[r].val = Range(inp)
                  /\ \A c \in Range(inp) : ret.val.rows[r].val[c] = arg.rows[r].val[c]
            /\ inp = <<"B", "dataset_fuente", "consultas_90_dias", "D">> =>
                  out = <<"consultas_90_dias", "dataset_fuente", "B", "D">>

\* C7 witness: the example of the claim.
C7_Witness ==
    /\ ret.done
    /\ arg.cols = <<"B", "dataset_fuente", "consultas_90_dias", "D">>
    /\ ret.val.cols = <<"consultas_90_dias", "dataset_fuente", "B", "D">>

(* Topic filter: claim C8, checked under SpecTopic *)

MaxCatalogRows == 3

\* topics of the catalog: a missing one, a usual one, and the word of the sentinel
Temas == {NaN, W_Actividad, W_Todos}

CatalogOf(temas) ==
    Table(RemoteHeader,
          [i \in DOMAIN temas |->
              [idx |-> i - 1,
               val |-> [c \in Range(RemoteHeader) |->
                          CASE c = "serie_id" -> <<DigitChars[i]>>
                            [] c = "serie_titulo" -> <<"a">>
                            [] c = "dataset_tema" -> temas[i]
                            [] c = "consultas_90_dias" -> Num(0)]]])

TopicInputs ==
    UNION {[meta : {CatalogOf(temas)}, sel_topic : TopicOptions(CatalogOf(temas))] :
              temas \in StringsUpTo(Temas, MaxCatalogRows)}

CallTopicFilter ==
    /\ ~ret.done
    /\ ret' = Returned(TopicFilter(arg.meta, arg.sel_topic))
    /\ UNCHANGED <<Session, arg>>

SpecTopic == Fresh(TopicInputs) /\ [][CallTopicFilter]_vars

\* C8. Selecting a topic that occurs in dataset_tema returns exactly the rows of
\* that topic, in their order; selecting "Todos" returns every row.
C8_TopicFilterExact ==
    ret.done =>
        /\ arg.sel_topic \in all_topics(arg.meta) =>
              /\ \A r \in Range(ret.val.rows) : r.val["dataset_tema"] = arg.sel_topic
              /\ \A r \in Range(arg.meta.rows) :
                    r.val["dataset_tema"] = arg.sel_topic => r \in Range(ret.val.rows)
        /\ arg.sel_topic = Todos => Len(ret.val.rows) = Len(arg.meta.rows)
        /\ Range(ret.val.rows) \subseteq Range(arg.meta.rows)
        /\ ret.val.cols = arg.meta.cols

(* File and script names: claim C10, checked under SpecNames *)

\* titles: two with one slug, one with an underscore, one of punctuation only
NameTitles == {<<"a">>, <<"A", "!">>, <<"b">>, <<"a", "_", "1">>, <<"!">>}
NameIds == {<<"A">>, <<"B">>}
NameDates == {<<>>, <<" ", "1">>, <<"1", "_", "1">>}

\* a chosen row and the two date fields
Requests ==
    [titulo : NameTitles, sel_id : NameIds, start_date : NameDates, end_date : NameDates]

RowOf(q) ==
    [idx |-> 0,
     val |-> [c \in {"serie_id", "serie_titulo"} |->
                IF c = "serie_id" THEN q.sel_id ELSE q.titulo]]

NameInputs == Requests \X Requests

CallNames ==
    /\ ~ret.done
    /\ ret' = Returned([i \in 1..2 |->
                           Names(Derive(RowOf(arg[i]), arg[i].start_date, arg[i].end_date))])
    /\ UNCHANGED <<Session, arg>>

SpecNames == Fresh(NameInputs) /\ [][CallNames]_vars

\* the request of the i-th save: series id, start and end as sent to the API
RequestOf(i) ==
    <<arg[i].sel_id, DateOrNone(arg[i].start_date), DateOrNone(arg[i].end_date)>>

SlugOf(i) == slugify(arg[i].titulo)

\* the dates of the i-th save as the file name shows them: the present ones,
\* joined by "_" (and whether there is any)
DatesShown(i) ==
    LET start == DateOrNone(arg[i].start_date)
        end == DateOrNone(arg[i].end_date)
    IN  IF start = None /\ end = None THEN <<>>
        ELSE IF end = None THEN <<start>>
        ELSE IF start = None THEN <<end>>
        ELSE <<start \o <<"_">> \o end>>

\* C10 as stated: two saves whose requests differ in series id, start date or
\* end date write files of different names, and series of different ids use
\* different scripts.
C10_DistinctRequestsDistinctFiles ==
    ret.done =>
        /\ RequestOf(1) # RequestOf(2) => ret.val[1].fname # ret.val[2].fname
        /\ arg[1].sel_id # arg[2].sel_id => ret.val[1].script_name # ret.val[2].script_name

\* C10 amended: two saves write the same file name exactly when their titles
\* have the same slug and their present dates, joined by "_", read the same;
\* the series id plays no part in the name. Titles of different slugs use
\* different scripts, titles of one slug the same script.
C10_SameFileIffSameSlugAndDates ==
    ret.done =>
        /\ ret.val[1].fname = ret.val[2].fname
              <=> (SlugOf(1) = SlugOf(2) /\ DatesShown(1) = DatesShown(2))
        /\ ret.val[1].script_name = ret.val[2].script_name <=> SlugOf(1) = SlugOf(2)

\* C10 witness: two series of different ids and titles, one slug, one file name.
C10_Witness ==
    /\ ret.done
    /\ arg[1].sel_id # arg[2].sel_id
    /\ arg[1].titulo # arg[2].titulo
    /\ RequestOf(1) # RequestOf(2)
    /\ ret.val[1].fname = ret.val[2].fname

====
